---- MODULE Spec2Model ----
(***************************************************************************)
(* Chat orchestration core of the movie-recommendation backend: the        *)
(* socket handlers, ChatService, UserService and the AI provider chain.    *)
(*                                                                         *)
(* Strings are sequences of one-character strings, so that trim() and      *)
(* toLowerCase() are computed and not assumed.  The fixed reply texts of   *)
(* the services are abbreviated to a single token.                         *)
(***************************************************************************)
EXTENDS Integers, Sequences, FiniteSets, TLC

VARIABLES env, users, rooms, messages, clock, joined, sockData, events, tasks, up

vars == <<env, users, rooms, messages, clock, joined, sockData, events, tasks, up>>

(***************************************************************************)
(* Bounds of the model.                                                    *)
(***************************************************************************)
\* client events the coordinator specification admits
MaxReq == 2
\* concurrent callers of ensureAIAssistantUser in SpecEnsure
NCallers == 3
\* ChatService.createUser calls in SpecUser
MaxUserCalls == 3

(***************************************************************************)
(* Strings.                                                                *)
(***************************************************************************)
UpperCs == <<"A","B","C","D","E","F","G","H","I","J","K","L","M",
             "N","O","P","Q","R","S","T","U","V","W","X","Y","Z">>

LowerCs == <<"a","b","c","d","e","f","g","h","i","j","k","l","m",
             "n","o","p","q","r","s","t","u","v","w","x","y","z">>

DigitCs == <<"0","1","2","3","4","5","6","7","8","9">>

Range(s) == { s[i] : i \in DOMAIN s }

WhiteSpace == {" ", "\t", "\n"}

\* String.prototype.toLowerCase, one character
LowerChar(c) ==
  IF \E i \in DOMAIN UpperCs : UpperCs[i] = c
    THEN LowerCs[CHOOSE i \in DOMAIN UpperCs : UpperCs[i] = c]
    ELSE c

toLowerCase(s) == [i \in DOMAIN s |-> LowerChar(s[i])]

\* String.prototype.trim
trim(s) ==
  LET keep == { i \in DOMAIN s : s[i] \notin WhiteSpace }
  IN  IF keep = {} THEN <<>>
      ELSE LET lo == CHOOSE i \in keep : \A j \in keep : i <= j
               hi == CHOOSE i \in keep : \A j \in keep : j <= i
           IN  SubSeq(s, lo, hi)

\* the n-th identifier the store generates (PrimaryGeneratedColumn('uuid'));
\* a uuid is lower-case hexadecimal
Uuid(n) == <<DigitCs[n + 1]>>

(***************************************************************************)
(* UserService: validation and sanitisation.                               *)
(***************************************************************************)
MinUsernameLen == 2
MaxUsernameLen == 50
MaxEmailLen == 255

NoEmail == <<>>

Err(f, m) == [field |-> f, message |-> m]

\* /^[a-zA-Z0-9_-]+$/
UsernameCharsetOk(s) ==
  /\ s # <<>>
  /\ Range(s) \subseteq Range(UpperCs) \cup Range(LowerCs) \cup Range(DigitCs) \cup {"_", "-"}

\* /^[^\s@]+@[^\s@]+\.[^\s@]+$/
EmailFormatOk(e) ==
  /\ Range(e) \cap WhiteSpace = {}
  /\ Cardinality({ i \in DOMAIN e : e[i] = "@" }) = 1
  /\ LET at == CHOOSE i \in DOMAIN e : e[i] = "@"
     IN  /\ at > 1
         /\ \E d \in DOMAIN e : e[d] = "." /\ d > at + 1 /\ d < Len(e)

sanitizeUserData(data) ==
  [username |-> toLowerCase(trim(data.username)),
   email    |-> toLowerCase(trim(data.email))]

validateUserData(data) ==
  LET nameErrs ==
        IF data.username = <<>>
          THEN << Err("username", "Username is required") >>
          ELSE (IF Len(data.username) < MinUsernameLen
                  THEN << Err("username", "Username must be at least 2 characters long") >>
                  ELSE <<>>)
               \o (IF Len(data.username) > MaxUsernameLen
                     THEN << Err("username", "Username must be less than 50 characters long") >>
                     ELSE <<>>)
               \o (IF ~UsernameCharsetOk(data.username)
                     THEN << Err("username", "Username can only contain letters, numbers, underscores, and dashes") >>
                     ELSE <<>>)
      emailErrs ==
        IF data.email # <<>>
          THEN (IF ~EmailFormatOk(data.email)
                  THEN << Err("email", "Invalid email format") >>
                  ELSE <<>>)
               \o (IF Len(data.email) > MaxEmailLen
                     THEN << Err("email", "Email must be less than 255 characters long") >>
                     ELSE <<>>)
          ELSE <<>>
  IN  nameErrs \o emailErrs

(***************************************************************************)
(* The relational store: users, chat rooms and messages.                   *)
(***************************************************************************)
NoUser == [id |-> <<>>, username |-> <<>>, email |-> <<>>, isActive |-> FALSE]

NewUser(us, name, email) ==
  [id |-> Uuid(Cardinality(us) + 1), username |-> name, email |-> email, isActive |-> TRUE]

\* findOne({ where: { username, isActive: true } })
FindActiveByUsername(us, name) == { u \in us : u.username = name /\ u.isActive }

\* findOne({ where: ... }); text comparison in the store is exact
FindByUsername(us, name) == { u \in us : u.username = name }
FindByEmail(us, email)   == { u \in us : u.email = email }
FindById(us, id)         == { u \in us : u.id = id }

One(S) == IF S = {} THEN NoUser ELSE CHOOSE u \in S : TRUE

\* @Column({ unique: true }) username: an insert of a taken name is refused
UniqueViolation(us, name) == FindByUsername(us, name) # {}

(***************************************************************************)
(* The AI providers.                                                       *)
(***************************************************************************)
StaticFallback    == << "I'm sorry, I'm having trouble connecting to my AI services right now." >>
LangchainFallback == << "I'm sorry, I encountered an error while generating your movie recommendation." >>
OpenAISorry       == << "Sorry, I could not generate a response." >>

\* the outcome of a provider call that raises
Throw == << "<exception>" >>

\* completions the primary model may return, before trim()
GroqOutputs == { <<" ", "p", " ">>, <<" ", "\n">> }
\* message contents the secondary model may return (possibly empty)
OpenAIOutputs == { <<"s">>, <<>> }

Envs == [GROQ_API_KEY : BOOLEAN, TMDB_API_KEY : BOOLEAN,
         TMDB_ACESS_TOKEN : BOOLEAN, OPENAI_API_KEY : BOOLEAN]

\* what the network does during one generateAIResponse
Outcomes == [extract : {"ok", "throw"}, search : {"ok", "fail"},
             generate : GroqOutputs \cup {Throw}, openai : OpenAIOutputs \cup {Throw}]

NoOutcome == [extract |-> "ok", search |-> "fail", generate |-> Throw, openai |-> Throw]

\* LangchainAIService.isConfigured
isConfigured(e) == e.GROQ_API_KEY /\ e.TMDB_API_KEY

\* OpenAIService.isAvailable
isAvailable(e) == e.OPENAI_API_KEY

\* LangchainAIService.searchMovies: a request that the metadata service
\* answers only when the bearer token is present; errors give []
searchMovies(e, oc) ==
  [found |-> oc.search = "ok" /\ e.TMDB_ACESS_TOKEN, calls |-> {"tmdb"}]

\* LangchainAIService.generateMovieRecommendation
LangchainGenerate(e, userMessage, chatHistory, oc) ==
  IF oc.extract = "throw"
    THEN [reply |-> LangchainFallback, calls |-> {"groq"}, threw |-> FALSE]
    ELSE LET s == searchMovies(e, oc)
         IN  IF oc.generate = Throw
               THEN [reply |-> LangchainFallback, calls |-> {"groq"} \cup s.calls, threw |-> FALSE]
               ELSE [reply |-> trim(oc.generate), calls |-> {"groq"} \cup s.calls, threw |-> FALSE]

\* OpenAIService.generateMovieRecommendation
OpenAIGenerate(e, userMessage, chatHistory, oc) ==
  IF ~isAvailable(e)
    THEN [reply |-> <<>>, calls |-> {}, threw |-> TRUE]
    ELSE IF oc.openai = Throw
           THEN [reply |-> <<>>, calls |-> {"openai"}, threw |-> TRUE]
           ELSE [reply |-> IF oc.openai = <<>> THEN OpenAISorry ELSE oc.openai,
                 calls |-> {"openai"}, threw |-> FALSE]

\* ChatService.generateAIResponse, from the OpenAI branch on; calls are the
\* provider calls already issued
SecondaryOrStatic(e, userMessage, chatHistory, oc, calls) ==
  IF isAvailable(e)
    THEN LET s == OpenAIGenerate(e, userMessage, chatHistory, oc)
         IN  IF ~s.threw
               THEN [reply |-> s.reply, calls |-> calls \cup s.calls, threw |-> FALSE]
               ELSE [reply |-> StaticFallback, calls |-> calls \cup s.calls, threw |-> FALSE]
    ELSE [reply |-> StaticFallback, calls |-> calls, threw |-> FALSE]

\* ChatService.generateAIResponse
generateAIResponse(e, userMessage, chatHistory, oc) ==
  IF isConfigured(e)
    THEN LET p == LangchainGenerate(e, userMessage, chatHistory, oc)
         IN  IF ~p.threw
               THEN p
               ELSE SecondaryOrStatic(e, userMessage, chatHistory, oc, p.calls)
    ELSE SecondaryOrStatic(e, userMessage, chatHistory, oc, {})

\* the value a uuid column holds for a text: hexadecimal digits in lower case
uuid(text) == toLowerCase(text)

(***************************************************************************)
(* Handler invocations.  A task is one running call chain: a socket event  *)
(* handler, or a direct call of a service method.  pc is the await the     *)
(* task is suspended at.                                                   *)
(***************************************************************************)
NoConn == "none"
NoRoom == "none"
NoRes  == [success |-> FALSE, id |-> <<>>, errors |-> <<>>]

Task(kind, conn, pc) ==
  [kind |-> kind, conn |-> conn, pc |-> pc, bad |-> FALSE,
   roomId |-> NoRoom, userId |-> <<>>, content |-> <<>>, type |-> "user",
   rawName |-> <<>>, name |-> <<>>, email |-> NoEmail, ctx |-> "none", res |-> NoRes, user |-> NoUser,
   msg |-> 0, hist |-> <<>>, oc |-> NoOutcome, reply |-> <<>>, calls |-> {},
   aiUser |-> NoUser, aiMsg |-> 0, steps |-> <<>>, after |-> {}, found |-> {},
   input |-> <<>>,
   migrations |-> 0, result |-> "pending"]

TaskIds == DOMAIN tasks

SetTask(t, rec) == tasks' = [tasks EXCEPT ![t] = rec]

Finish(rec, result) == [rec EXCEPT !.pc = "done", !.result = result]

\* the effects a handler has had so far, in the order it had them
Did(rec, step) == [rec EXCEPT !.steps = Append(@, step)]

(***************************************************************************)
(* Events the server emits.  to is the set of connections that receive     *)
(* the event; task is the handler invocation that emitted it.              *)
(***************************************************************************)
Event(ev, to, t) ==
  [ev |-> ev, to |-> to, task |-> t, roomId |-> NoRoom, msg |-> 0,
   content |-> <<>>, type |-> "none", userId |-> <<>>, username |-> <<>>,
   list |-> <<>>, message |-> ""]

\* io.emit: to every connection
ToAllSockets(c) == DOMAIN joined

\* socket.emit: to the handler's own connection
ToSocket(c) == {c}

\* io.emit in place of io.to(roomId).emit: every connection
ToEveryRoom(roomId) == DOMAIN joined

\* io.to(roomId): the connections in the room when the event is emitted
ToRoom(roomId) == { c \in DOMAIN joined : roomId \in joined[c] }

\* a payload whose type is written out as MessageType.USER
UserTypedEvent(ev, t, roomId, row, userId, username) ==
  [Event(ev, ToRoom(roomId), t) EXCEPT
     !.roomId = roomId, !.msg = row.id, !.content = row.content,
     !.type = "user", !.userId = userId, !.username = username]

\* io.to(roomId).emit(ev, { id, content, type, userId, username, createdAt })
\* with id, content and type read from the row saveMessage returned
MessageEvent(ev, t, roomId, row, userId, username) ==
  [Event(ev, ToRoom(roomId), t) EXCEPT
     !.roomId = roomId, !.msg = row.id, !.content = row.content,
     !.type = row.type, !.userId = userId, !.username = username]

\* the catch block of a handler: socket.emit('error', { message })
ErrorEvent(t, rec, message) ==
  [Event("error", ToSocket(rec.conn), t) EXCEPT !.message = message]

\* `user_${userId}`
UserPrefix == <<"u","s","e","r","_">>

(***************************************************************************)
(* UserService.createUser, one step per awaited store operation.           *)
(***************************************************************************)
AIUsername == <<"a","i","-","a","s","s","i","s","t","a","n","t">>
AIEmail == <<"a","i","@","v","i","b","e","-","c","o","d","i","n","g",".","c","o","m">>

Success(id) == [success |-> TRUE, id |-> id, errors |-> <<>>]
Failure(errs) == [success |-> FALSE, id |-> <<>>, errors |-> errs]

\* where the caller of UserService.createUser resumes with result res:
\* ChatService.createUser re-reads the row by id, or looks the given name up;
\* ensureAIAssistantUser re-reads the row by id, or throws into its fallback
UsReturn(rec, res) ==
  CASE rec.ctx = "chat" ->
         [rec EXCEPT !.res = res,
                     !.pc = IF res.success THEN "cs_find_id" ELSE "cs_find_name"]
    [] rec.ctx = "ensure" ->
         [rec EXCEPT !.res = res,
                     !.pc = IF res.success THEN "ens_find_id" ELSE "ens_fallback_save"]
    \* POST /api/users: the result is the response
    [] rec.ctx = "rest" -> Finish([rec EXCEPT !.res = res], "ok")

\* the call of UserService.createUser up to its first await: sanitise, validate
UsCall(rec, username, email, ctx) ==
  LET d    == sanitizeUserData([username |-> username, email |-> email])
      errs == validateUserData(d)
      r    == [rec EXCEPT !.rawName = username, !.name = d.username,
                          !.email = d.email, !.ctx = ctx]
  IN  IF errs # <<>> THEN UsReturn(r, Failure(errs))
      ELSE [r EXCEPT !.pc = "us_find_name"]

\* findOne({ where: { username } })
UsFindName(t) ==
  /\ up /\ tasks[t].pc = "us_find_name"
  /\ LET rec == tasks[t]
     IN  IF FindByUsername(users, rec.name) # {}
           THEN SetTask(t, UsReturn(rec, Failure(<< Err("username", "Username already exists") >>)))
           ELSE SetTask(t, [rec EXCEPT !.pc = IF rec.email # NoEmail THEN "us_find_email"
                                                ELSE "us_save"])
  /\ UNCHANGED <<env, users, rooms, messages, clock, joined, sockData, events, up>>

\* findOne({ where: { email } })
UsFindEmail(t) ==
  /\ up /\ tasks[t].pc = "us_find_email"
  /\ LET rec == tasks[t]
     IN  IF FindByEmail(users, rec.email) # {}
           THEN SetTask(t, UsReturn(rec, Failure(<< Err("email", "Email already exists") >>)))
           ELSE SetTask(t, [rec EXCEPT !.pc = "us_save"])
  /\ UNCHANGED <<env, users, rooms, messages, clock, joined, sockData, events, up>>

\* userRepo.save(user); a refused insert is caught and reported as a failure
UsSave(t) ==
  /\ up /\ tasks[t].pc = "us_save"
  /\ LET rec == tasks[t]
         u   == NewUser(users, rec.name, rec.email)
     IN  IF UniqueViolation(users, rec.name)
           THEN /\ SetTask(t, UsReturn(rec, Failure(<< Err("general",
                               "Internal server error occurred while creating user") >>)))
                /\ users' = users
           ELSE /\ SetTask(t, UsReturn(rec, Success(u.id)))
                /\ users' = users \cup {u}
  /\ UNCHANGED <<env, rooms, messages, clock, joined, sockData, events, up>>

(***************************************************************************)
(* ChatService.createUser.                                                 *)
(***************************************************************************)
\* where the caller of ChatService.createUser resumes
AfterCreateUser(t, rec, user, threw) ==
  CASE rec.kind = "chat_user" ->
         /\ SetTask(t, Finish([rec EXCEPT !.user = user],
                              IF threw THEN "threw" ELSE "ok"))
         /\ UNCHANGED <<sockData, events>>
    \* join_room: socket.data.username, then socket.emit('room_joined')
    [] rec.kind = "join" ->
         IF threw
           THEN /\ events' = Append(events, ErrorEvent(t, rec, "Failed to join room"))
                /\ SetTask(t, Finish(Did(Did(rec, "createUser throws"), "error"), "error"))
                /\ UNCHANGED sockData
           ELSE /\ sockData' = [sockData EXCEPT ![rec.conn].username = user.username]
                /\ events' = Append(events, [Event("room_joined", ToSocket(rec.conn), t)
                                               EXCEPT !.roomId = rec.roomId])
                /\ SetTask(t, Finish(Did(Did([rec EXCEPT !.user = user],
                                             "createUser"), "room_joined"), "ok"))
    \* send_message: io.to(roomId).emit('new_message'), then the history read
    [] rec.kind = "send" ->
         IF threw
           THEN /\ events' = Append(events, ErrorEvent(t, rec, "Failed to send message"))
                /\ SetTask(t, Finish(rec, "error"))
                /\ UNCHANGED sockData
           ELSE /\ events' = Append(events,
                      MessageEvent("new_message", t, rec.roomId, messages[rec.msg],
                                   rec.userId, user.username))
                /\ SetTask(t, [rec EXCEPT !.user = user, !.pc = "send_history"])
                /\ UNCHANGED sockData

\* success: findOne({ where: { id: result.user.id } })
CsFindId(t) ==
  /\ up /\ tasks[t].pc = "cs_find_id"
  /\ AfterCreateUser(t, tasks[t], One(FindById(users, tasks[t].res.id)), FALSE)
  /\ UNCHANGED <<env, users, rooms, messages, clock, joined, up>>

\* failure: findOne({ where: { username } }) with the name as it was given;
\* no row, and the call throws
CsFindName(t) ==
  /\ up /\ tasks[t].pc = "cs_find_name"
  /\ LET found == FindByUsername(users, tasks[t].rawName)
     IN  AfterCreateUser(t, tasks[t], One(found), found = {})
  /\ UNCHANGED <<env, users, rooms, messages, clock, joined, up>>

(***************************************************************************)
(* ChatService.ensureAIAssistantUser and migrateAIMessages.                *)
(***************************************************************************)
\* where the caller of ensureAIAssistantUser resumes
AfterEnsure(t, rec, aiUser, threw) ==
  CASE rec.kind = "ensure" ->
         /\ SetTask(t, Finish([rec EXCEPT !.aiUser = aiUser],
                              IF threw THEN "threw" ELSE "ok"))
         /\ UNCHANGED <<sockData, events>>
    \* start-up: try { await ensureAIAssistantUser() } catch { log }, then
    \* httpServer.listen in either case
    [] rec.kind = "startup" ->
         /\ SetTask(t, Finish(Did([rec EXCEPT !.aiUser = aiUser],
                                  IF threw THEN "ensure threw" ELSE "ensure returned"),
                              "listening"))
         /\ UNCHANGED <<sockData, events>>
    \* send_message: on to saving the AI message
    [] rec.kind = "send" ->
         IF threw
           THEN /\ events' = Append(events, ErrorEvent(t, rec, "Failed to send message"))
                /\ SetTask(t, Finish(rec, "error"))
                /\ UNCHANGED sockData
           ELSE /\ SetTask(t, [rec EXCEPT !.aiUser = aiUser, !.pc = "send_save_ai"])
                /\ UNCHANGED <<sockData, events>>

\* the author of the reply looked up by the sender's id
EnsFindSender(t) ==
  /\ up /\ tasks[t].pc = "ens_find"
  /\ LET found == FindById(users, uuid(tasks[t].userId))
     IN  IF found # {}
           THEN AfterEnsure(t, tasks[t], One(found), FALSE)
           ELSE /\ SetTask(t, UsCall(tasks[t], AIUsername, AIEmail, "ensure"))
                /\ UNCHANGED <<sockData, events>>
  /\ UNCHANGED <<env, users, rooms, messages, clock, joined, up>>

\* findOne({ where: { username: 'ai-assistant' } })
EnsFind(t) ==
  /\ up /\ tasks[t].pc = "ens_find"
  /\ LET found == FindByUsername(users, AIUsername)
     IN  IF found # {}
           THEN AfterEnsure(t, tasks[t], One(found), FALSE)
           ELSE /\ SetTask(t, UsCall(tasks[t], AIUsername, AIEmail, "ensure"))
                /\ UNCHANGED <<sockData, events>>
  /\ UNCHANGED <<env, users, rooms, messages, clock, joined, up>>

\* created: findOne({ where: { id: result.user.id } })
EnsFindId(t) ==
  /\ up /\ tasks[t].pc = "ens_find_id"
  /\ SetTask(t, [tasks[t] EXCEPT !.aiUser = One(FindById(users, tasks[t].res.id)),
                                 !.pc = "ens_migrate"])
  /\ UNCHANGED <<env, users, rooms, messages, clock, joined, sockData, events, up>>

\* the catch branch: userRepo.save of a new 'ai-assistant' row, unchecked;
\* a refused insert leaves ensureAIAssistantUser as an exception
EnsFallbackSave(t) ==
  /\ up /\ tasks[t].pc = "ens_fallback_save"
  /\ LET u == NewUser(users, AIUsername, AIEmail)
     IN  IF UniqueViolation(users, AIUsername)
           THEN /\ AfterEnsure(t, tasks[t], NoUser, TRUE)
                /\ users' = users
           ELSE /\ SetTask(t, [tasks[t] EXCEPT !.aiUser = u, !.pc = "ens_migrate"])
                /\ users' = users \cup {u}
                /\ UNCHANGED <<sockData, events>>
  /\ UNCHANGED <<env, rooms, messages, clock, joined, up>>

\* every row whose userId is the string 'ai-assistant', whatever its type
PlaceholderMessages(msgs) ==
  {i \in DOMAIN msgs : msgs[i].userId = AIUsername}

\* find({ where: { userId: 'ai-assistant', type: MessageType.AI } })
oldAIMessages(msgs) ==
  {i \in DOMAIN msgs : msgs[i].userId = AIUsername /\ msgs[i].type = "ai"}

\* message.userId = aiUserId for each row found; messageRepo.save(oldAIMessages)
SaveAuthors(msgs, found, aiUserId) ==
  [i \in DOMAIN msgs |->
     IF i \in found THEN [msgs[i] EXCEPT !.userId = aiUserId] ELSE msgs[i]]

\* migrateAIMessages when nothing fails: AI messages whose userId is the
\* string 'ai-assistant' get the id of the AI user
migrateAIMessages(msgs, aiUserId) ==
  SaveAuthors(msgs, oldAIMessages(msgs), aiUserId)

\* an error that leaves migrateAIMessages as an exception
MigrationRethrown(failed) == failed

\* catch (error) { console.error(...) }: does the error leave
\* migrateAIMessages?  It is logged and the method returns normally.
MigrationCaught(failed) == FALSE

\* where ensureAIAssistantUser goes on after migrateAIMessages: an
\* exception inside the try block reaches the catch block and its fallback
\* save, one inside the catch block leaves ensureAIAssistantUser
AfterMigrate(t, rec, failed) ==
  LET done == Did(rec, IF failed THEN "migration failed" ELSE "migrated")
  IN  IF MigrationCaught(failed)
        THEN IF rec.res.success
               THEN /\ SetTask(t, [done EXCEPT !.pc = "ens_fallback_save"])
                    /\ UNCHANGED <<sockData, events>>
               ELSE AfterEnsure(t, done, NoUser, TRUE)
        ELSE AfterEnsure(t, done, rec.aiUser, FALSE)

\* migrateAIMessages, the read: it may fail; with no row found the method
\* returns
EnsMigrate(t) ==
  /\ up /\ tasks[t].pc = "ens_migrate"
  /\ \E ok \in BOOLEAN :
       LET rec == [tasks[t] EXCEPT !.migrations = @ + 1,
                                   !.found = IF ok THEN oldAIMessages(messages) ELSE {}]
       IN  IF ok /\ rec.found # {}
             THEN /\ SetTask(t, [rec EXCEPT !.pc = "ens_migrate_save"])
                  /\ UNCHANGED <<sockData, events>>
             ELSE AfterMigrate(t, rec, ~ok)
  /\ UNCHANGED <<env, users, rooms, messages, clock, joined, up>>

\* migrateAIMessages, the write of the rows found: it may fail
EnsMigrateSave(t) ==
  /\ up /\ tasks[t].pc = "ens_migrate_save"
  /\ \E ok \in BOOLEAN :
       /\ messages' = IF ok THEN SaveAuthors(messages, tasks[t].found, tasks[t].aiUser.id)
                           ELSE messages
       /\ AfterMigrate(t, tasks[t], ~ok)
  /\ UNCHANGED <<env, users, rooms, clock, joined, up>>

(***************************************************************************)
(* The recommendation pipeline on its own: generateAIResponse applied to   *)
(* every environment and every behaviour of the network.                   *)
(***************************************************************************)
UserMessages == { <<"h", "i">> }

InitStore ==
  /\ users = {}
  /\ rooms = {}
  /\ messages = <<>>
  /\ clock = 1

InitSockets ==
  /\ joined = [c \in {} |-> {}]
  /\ sockData = [c \in {} |-> NoUser]
  /\ events = <<>>
  /\ up = TRUE

InitPipeline ==
  /\ env \in Envs
  /\ InitStore
  /\ InitSockets
  /\ tasks = <<>>

Respond ==
  \E m \in UserMessages, oc \in Outcomes :
    LET r == generateAIResponse(env, m, <<>>, oc)
    IN  /\ tasks' = << [Task("respond", NoConn, "done") EXCEPT
                          !.content = m, !.oc = oc, !.reply = r.reply,
                          !.calls = r.calls,
                          !.result = IF r.threw THEN "threw" ELSE "ok"] >>
        /\ UNCHANGED <<env, users, rooms, messages, clock, joined, sockData, events, up>>

NextPipeline == Respond

SpecPipeline == InitPipeline /\ [][NextPipeline]_vars

Responded(t) == tasks[t].kind = "respond" /\ tasks[t].pc = "done"

\* what the secondary provider hands back for outcome oc
SecondaryOutput(oc) == IF oc.openai = <<>> THEN OpenAISorry ELSE oc.openai

\* C3: generateAIResponse never throws and resolves to a non-empty string,
\* whatever is configured and whatever the provider calls do.
C3_NeverThrowsNonEmpty ==
  \A t \in TaskIds :
    Responded(t) => tasks[t].result = "ok" /\ tasks[t].reply # <<>>

\* C4: a failing primary generation call falls through to a configured,
\* succeeding secondary provider, whose output is the reply; the static
\* fallback text is returned only when every provider failed or is unconfigured.
C4_FallsThroughToSecondary ==
  \A t \in TaskIds :
    Responded(t) =>
      /\ ( /\ isConfigured(env) /\ tasks[t].oc.generate = Throw
           /\ isAvailable(env) /\ tasks[t].oc.openai # Throw )
         => tasks[t].reply = SecondaryOutput(tasks[t].oc)
      /\ tasks[t].reply = StaticFallback =>
           /\ ~isConfigured(env) \/ tasks[t].oc.extract = "throw"
              \/ tasks[t].oc.generate = Throw
           /\ ~isAvailable(env) \/ tasks[t].oc.openai = Throw

\* the credential a call to a provider presents
Credential(e, provider) ==
  CASE provider = "groq"   -> e.GROQ_API_KEY
    [] provider = "tmdb"   -> e.TMDB_ACESS_TOKEN
    [] provider = "openai" -> e.OPENAI_API_KEY

\* C10: no call goes to a provider whose credentials are absent; with neither
\* provider configured no call is made and the reply is the static fallback.
C10_NoCallWithoutCredentials ==
  \A t \in TaskIds :
    Responded(t) =>
      /\ \A p \in tasks[t].calls : Credential(env, p)
      /\ (~isConfigured(env) /\ ~isAvailable(env)) =>
           tasks[t].calls = {} /\ tasks[t].reply = StaticFallback

(***************************************************************************)
(* ensureAIAssistantUser called from several request paths at once (the    *)
(* status endpoint, the init script, send_message) on a store that holds   *)
(* no 'ai-assistant' row yet.                                              *)
(***************************************************************************)
InitEnsure ==
  /\ env \in {e \in Envs : ~e.GROQ_API_KEY /\ ~e.TMDB_API_KEY /\ ~e.TMDB_ACESS_TOKEN}
  /\ InitStore
  /\ InitSockets
  /\ tasks = <<>>

EnsureCall ==
  /\ Len(tasks) < NCallers
  /\ tasks' = Append(tasks, Task("ensure", NoConn, "ens_find"))
  /\ UNCHANGED <<env, users, rooms, messages, clock, joined, sockData, events, up>>

NextEnsure ==
  \/ EnsureCall
  \/ \E t \in TaskIds : EnsFind(t)
  \/ \E t \in TaskIds : UsFindName(t)
  \/ \E t \in TaskIds : UsFindEmail(t)
  \/ \E t \in TaskIds : UsSave(t)
  \/ \E t \in TaskIds : EnsFindId(t)
  \/ \E t \in TaskIds : EnsFallbackSave(t)
  \/ \E t \in TaskIds : EnsMigrate(t)

SpecEnsure == InitEnsure /\ [][NextEnsure]_vars

AIRows == FindByUsername(users, AIUsername)

\* C2: however the callers' reads, creates and saves interleave, there is never
\* more than one 'ai-assistant' row, and every caller that has returned did so
\* successfully, with the identifier of that one row.
C2_ConcurrentEnsureAllSucceed ==
  /\ Cardinality(AIRows) <= 1
  /\ \A t \in TaskIds :
       (tasks[t].kind = "ensure" /\ tasks[t].pc = "done") =>
         /\ tasks[t].result = "ok"
         /\ AIRows = {tasks[t].aiUser}

(***************************************************************************)
(* ChatService.createUser called directly (POST /api/chat/users).          *)
(***************************************************************************)
Names == { <<"a", "b">>, <<"A", "b">>, <<"a">> }

Emails == { NoEmail, <<"x", "@", "y", ".", "z">> }

InitUser ==
  /\ env \in {e \in Envs : ~e.GROQ_API_KEY /\ ~e.TMDB_API_KEY /\ ~e.TMDB_ACESS_TOKEN /\ ~e.OPENAI_API_KEY}
  /\ InitStore
  /\ InitSockets
  /\ tasks = <<>>

\* chatService.createUser(username, email)
ChatCreateUserCall ==
  /\ Len(tasks) < MaxUserCalls
  /\ \E n \in Names, e \in Emails :
       tasks' = Append(tasks, UsCall(Task("chat_user", NoConn, "start"), n, e, "chat"))
  /\ UNCHANGED <<env, users, rooms, messages, clock, joined, sockData, events, up>>

NextUser ==
  \/ ChatCreateUserCall
  \/ \E t \in TaskIds : UsFindName(t)
  \/ \E t \in TaskIds : UsFindEmail(t)
  \/ \E t \in TaskIds : UsSave(t)
  \/ \E t \in TaskIds : CsFindId(t)
  \/ \E t \in TaskIds : CsFindName(t)

SpecUser == InitUser /\ [][NextUser]_vars

ValidName(n) == validateUserData(sanitizeUserData([username |-> n, email |-> NoEmail])) = <<>>

Normalized(n) == sanitizeUserData([username |-> n, email |-> NoEmail]).username

Returned(t) == tasks[t].kind = "chat_user" /\ tasks[t].pc = "done"

\* C5: two calls of ChatService.createUser with valid names that normalize to
\* the same value both return a user, the same one, and leave one row of that name.
C5_CreateUserIdempotent ==
  \A t1, t2 \in TaskIds :
    ( /\ t1 < t2 /\ Returned(t1) /\ Returned(t2)
      /\ tasks[t1].email = NoEmail /\ tasks[t2].email = NoEmail
      /\ ValidName(tasks[t1].rawName) /\ ValidName(tasks[t2].rawName)
      /\ Normalized(tasks[t1].rawName) = Normalized(tasks[t2].rawName) )
    => /\ tasks[t1].result = "ok" /\ tasks[t2].result = "ok"
       /\ tasks[t1].user.id = tasks[t2].user.id
       /\ Cardinality(FindByUsername(users, Normalized(tasks[t1].rawName))) = 1

\* C17: a call of ChatService.createUser for which UserService reports
\* validation errors (a malformed name, a malformed e-mail, an e-mail already
\* in use) returns to its caller: it does not end in an exception.
C17_ExpectedFailuresReturned ==
  \A t \in TaskIds :
    (Returned(t) /\ ~tasks[t].res.success /\ tasks[t].res.errors # <<>>)
      => tasks[t].result # "threw"

(***************************************************************************)
(* The session coordinator: setupSocketHandlers over ChatService.  A       *)
(* request action is the arrival of a client event and the handler's code  *)
(* up to its first await; the other actions are the handler's resumptions. *)
(***************************************************************************)
Conns == {"c1", "c2"}

\* identifiers the store generates for chat rooms
RoomIdOf == <<"r1", "r2", "r3", "r4", "r5", "r6", "r7", "r8">>

\* a user registered through POST /api/chat/users, and the AI user that
\* the start-up call of ensureAIAssistantUser leaves behind
Registered == [id |-> Uuid(1), username |-> <<"a","l">>, email |-> NoEmail, isActive |-> TRUE]
AIUser     == [id |-> Uuid(2), username |-> AIUsername, email |-> AIEmail, isActive |-> TRUE]

\* what clients send.  A browser keeps one user id (App.tsx, currentUserId):
\* the first connection is the registered user's, the second uses an
\* identifier no row has.  Malformed is an event without data
ClientRooms == {"r1", "r2"}
UserIdOf == [c \in Conns |-> IF c = "c1" THEN Uuid(1) ELSE <<"U">>]
Malformed == [bad |-> TRUE, roomId |-> NoRoom, userId |-> <<>>, content |-> <<>>]
Payloads(roomIds, userIds, contents) ==
  [bad : {FALSE}, roomId : roomIds, userId : userIds, content : contents] \cup {Malformed}

NoneEnv == [GROQ_API_KEY |-> FALSE, TMDB_API_KEY |-> FALSE,
            TMDB_ACESS_TOKEN |-> FALSE, OPENAI_API_KEY |-> FALSE]
AllEnv  == [GROQ_API_KEY |-> TRUE, TMDB_API_KEY |-> TRUE,
            TMDB_ACESS_TOKEN |-> TRUE, OPENAI_API_KEY |-> TRUE]

\* foreign keys of Message: userId -> users.id, chatRoomId -> chat_rooms.id
FkOk(userId, chatRoomId) ==
  /\ FindById(users, uuid(userId)) # {}
  /\ \E r \in rooms : r.id = chatRoomId

\* an upsert on the newest row: the save lands on an existing row
SaveOverNewest(msgs, userId, chatRoomId, content, type, stamp) ==
  IF msgs = <<>>
    THEN <<[id |-> 1, content |-> content, type |-> type,
            createdAt |-> stamp, userId |-> uuid(userId), chatRoomId |-> chatRoomId]>>
    ELSE [msgs EXCEPT ![Len(msgs)] =
            [id |-> Len(msgs), content |-> content, type |-> type,
             createdAt |-> stamp, userId |-> uuid(userId), chatRoomId |-> chatRoomId]]

\* messageRepo.save(messageRepo.create({...})): the row as inserted;
\* createdAt is the store's time of the insert
SaveMessage(msgs, userId, chatRoomId, content, type, stamp) ==
  Append(msgs, [id |-> Len(msgs) + 1, content |-> content, type |-> type,
                createdAt |-> stamp, userId |-> uuid(userId), chatRoomId |-> chatRoomId])

\* order: { createdAt: 'DESC' }
OrderByCreatedAtDesc(h) ==
  \A i, j \in DOMAIN h : i < j => messages[h[i]].createdAt >= messages[h[j]].createdAt

\* order: { createdAt: 'ASC' } over a sequence of message ids
OrderByCreatedAt(h) ==
  \A i, j \in DOMAIN h : i < j => messages[h[i]].createdAt <= messages[h[j]].createdAt

\* getChatRoomMessages(chatRoomId): the rows of the room in an order the
\* ORDER BY admits; rows with equal createdAt come in any order
Histories(chatRoomId) ==
  LET S == { i \in DOMAIN messages : messages[i].chatRoomId = chatRoomId }
  IN  { h \in [1..Cardinality(S) -> S] :
          /\ \A i, j \in DOMAIN h : i # j => h[i] # h[j]
          /\ OrderByCreatedAt(h) }

\* getUserChatRooms(userId): active rooms of the owner, updatedAt DESC
RoomLists(userId) ==
  LET S == { r \in rooms : r.userId = userId /\ r.isActive }
  IN  { l \in [1..Cardinality(S) -> S] :
          /\ \A i, j \in DOMAIN l : i # j => l[i] # l[j]
          /\ \A i, j \in DOMAIN l : i < j => l[i].updatedAt >= l[j].updatedAt }

NewTask(kind, c, p, pc) ==
  [Task(kind, c, pc) EXCEPT !.bad = p.bad, !.roomId = p.roomId,
                            !.userId = p.userId, !.content = p.content]

\* an event without data: the destructuring at the top of an async handler
\* throws inside its try block
Rejected(kind, c, p, message) ==
  LET t == Len(tasks) + 1
  IN  /\ tasks' = Append(tasks, Finish(Did(NewTask(kind, c, p, "start"), "error"), "error"))
      /\ events' = Append(events, ErrorEvent(t, [conn |-> c], message))

\* a connection as io.on('connection') receives it: socket.data is empty
NewSocket == [userId |-> <<>>, username |-> <<>>, open |-> TRUE]

\* the connection can still send events
Open(c) == sockData[c].open

\* a closed socket that keeps its rooms
leaveNone(j, c) == j

\* the socket leaves every room when it closes, before 'disconnect' is emitted
leaveAll(j, c) == [j EXCEPT ![c] = {}]

\* the connection closes; socket.on('disconnect') logs the socket id
Disconnect(c) ==
  /\ up /\ Open(c)
  /\ joined' = leaveAll(joined, c)
  /\ sockData' = [sockData EXCEPT ![c].open = FALSE]
  /\ UNCHANGED <<env, users, rooms, messages, clock, events, tasks, up>>

\* socket.on('join_room'): socket.join, socket.data.userId, then createUser
JoinRoom(c, p) ==
  /\ up /\ Len(tasks) < MaxReq
  /\ IF p.bad
       THEN /\ Rejected("join", c, p, "Failed to join room")
            /\ UNCHANGED <<joined, sockData>>
       ELSE /\ joined' = [joined EXCEPT ![c] = @ \cup {p.roomId}]
            /\ sockData' = [sockData EXCEPT ![c].userId = p.userId]
            /\ tasks' = Append(tasks, UsCall(Did(NewTask("join", c, p, "start"), "socket.join"),
                                             UserPrefix \o p.userId, NoEmail, "chat"))
            /\ events' = events
  /\ UNCHANGED <<env, users, rooms, messages, clock, up>>

\* socket.on('leave_room'): synchronous and without a try block; an event
\* without data throws out of the listener and ends the process, and with
\* it every connection
LeaveRoom(c, p) ==
  /\ up /\ Len(tasks) < MaxReq
  /\ LET t == Len(tasks) + 1
     IN  IF p.bad
           THEN /\ tasks' = Append(tasks, Finish(NewTask("leave", c, p, "start"), "threw"))
                /\ up' = FALSE
                /\ joined' = [x \in Conns |-> {}]
                /\ events' = events
           ELSE /\ joined' = [joined EXCEPT ![c] = @ \ {p.roomId}]
                /\ events' = Append(events, [Event("room_left", ToSocket(c), t)
                                               EXCEPT !.roomId = p.roomId])
                /\ tasks' = Append(tasks, Finish(NewTask("leave", c, p, "start"), "ok"))
                /\ up' = up
  /\ UNCHANGED <<env, users, rooms, messages, clock, sockData>>

\* socket.on('send_message'), up to the await of saveMessage
SendMessage(c, p) ==
  /\ up /\ Len(tasks) < MaxReq
  /\ IF p.bad
       THEN Rejected("send", c, p, "Failed to send message")
       ELSE /\ tasks' = Append(tasks, NewTask("send", c, p, "send_save"))
            /\ events' = events
  /\ UNCHANGED <<env, users, rooms, messages, clock, joined, sockData, up>>

\* saveMessage(userId, roomId, content, MessageType.USER), then the call of
\* createUser; a refused insert goes to the catch block
SendSave(t) ==
  /\ up /\ tasks[t].pc = "send_save"
  /\ LET rec == tasks[t]
     IN  IF ~FkOk(rec.userId, rec.roomId)
           THEN /\ events' = Append(events, ErrorEvent(t, rec, "Failed to send message"))
                /\ SetTask(t, Finish(rec, "error"))
                /\ UNCHANGED <<messages, clock>>
           ELSE \E stamp \in {clock, clock + 1} :
                  /\ messages' = SaveMessage(messages, rec.userId, rec.roomId,
                                             rec.content, "user", stamp)
                  /\ clock' = stamp
                  /\ SetTask(t, UsCall([rec EXCEPT !.msg = Len(messages) + 1],
                                       UserPrefix \o rec.userId, NoEmail, "chat"))
                  /\ events' = events
  /\ UNCHANGED <<env, users, rooms, joined, sockData, up>>

\* const chatHistory = await chatService.getChatRoomMessages(roomId)
SendHistory(t) ==
  /\ up /\ tasks[t].pc = "send_history"
  /\ \E h \in Histories(tasks[t].roomId) :
       SetTask(t, [tasks[t] EXCEPT !.hist = h, !.pc = "send_generate"])
  /\ UNCHANGED <<env, users, rooms, messages, clock, joined, sockData, events, up>>

\* const aiResponse = await chatService.generateAIResponse(content, chatHistory),
\* then the call of ensureAIAssistantUser
SendGenerate(t) ==
  /\ up /\ tasks[t].pc = "send_generate"
  /\ \E oc \in Outcomes :
       LET rec == tasks[t]
           r   == generateAIResponse(env, rec.content, rec.hist, oc)
       IN  IF r.threw
             THEN /\ events' = Append(events, ErrorEvent(t, rec, "Failed to send message"))
                  /\ SetTask(t, Finish(rec, "error"))
             ELSE /\ SetTask(t, [rec EXCEPT !.reply = r.reply, !.hist = <<>>,
                                            !.pc = "ens_find"])
                  /\ events' = events
  /\ UNCHANGED <<env, users, rooms, messages, clock, joined, sockData, up>>

\* saveMessage(aiUser.id, roomId, aiResponse, MessageType.AI) and setTimeout;
\* the insert is later than the handler's own first insert, several store
\* round trips before it
SendSaveAI(t) ==
  /\ up /\ tasks[t].pc = "send_save_ai"
  /\ LET rec == tasks[t]
     IN  IF ~FkOk(rec.aiUser.id, rec.roomId)
           THEN /\ events' = Append(events, ErrorEvent(t, rec, "Failed to send message"))
                /\ SetTask(t, Finish(rec, "error"))
                /\ UNCHANGED <<messages, clock>>
           ELSE \E stamp \in {clock, clock + 1} :
                  /\ stamp > messages[rec.msg].createdAt
                  /\ messages' = SaveMessage(messages, rec.aiUser.id, rec.roomId,
                                             rec.reply, "ai", stamp)
                  /\ clock' = stamp
                  /\ SetTask(t, [rec EXCEPT !.aiMsg = Len(messages) + 1, !.pc = "send_timer"])
                  /\ events' = events
  /\ UNCHANGED <<env, users, rooms, joined, sockData, up>>

\* the setTimeout callback: io.to(roomId).emit('ai_message')
SendTimer(t) ==
  /\ up /\ tasks[t].pc = "send_timer"
  /\ LET rec == tasks[t]
     IN  /\ events' = Append(events,
               MessageEvent("ai_message", t, rec.roomId, messages[rec.aiMsg],
                            rec.aiUser.id, rec.aiUser.username))
         /\ SetTask(t, Finish(rec, "ok"))
  /\ UNCHANGED <<env, users, rooms, messages, clock, joined, sockData, up>>

\* socket.on('create_room'), up to the await of createChatRoom
CreateRoom(c, p) ==
  /\ up /\ Len(tasks) < MaxReq
  /\ IF p.bad
       THEN Rejected("create_room", c, p, "Failed to create room")
       ELSE /\ tasks' = Append(tasks, NewTask("create_room", c, p, "room_save"))
            /\ events' = events
  /\ UNCHANGED <<env, users, rooms, messages, clock, joined, sockData, up>>

\* chatRoomRepo.save(chatRoom): the owner must be a row of users
CreateRoomSave(t) ==
  /\ up /\ tasks[t].pc = "room_save"
  /\ LET rec == tasks[t]
         id  == RoomIdOf[Cardinality(rooms) + 1]
     IN  IF FindById(users, rec.userId) = {}
           THEN /\ events' = Append(events, ErrorEvent(t, rec, "Failed to create room"))
                /\ SetTask(t, Finish(rec, "error"))
                /\ rooms' = rooms
           ELSE /\ rooms' = rooms \cup {[id |-> id, userId |-> rec.userId,
                                         isActive |-> TRUE, updatedAt |-> clock]}
                /\ events' = Append(events, [Event("room_created", ToSocket(rec.conn), t)
                                               EXCEPT !.roomId = id])
                /\ SetTask(t, Finish([rec EXCEPT !.roomId = id], "ok"))
  /\ UNCHANGED <<env, users, messages, clock, joined, sockData, up>>

\* socket.on('get_rooms'), up to the await of getUserChatRooms
GetRooms(c, p) ==
  /\ up /\ Len(tasks) < MaxReq
  /\ IF p.bad
       THEN Rejected("get_rooms", c, p, "Failed to get rooms")
       ELSE /\ tasks' = Append(tasks, NewTask("get_rooms", c, p, "rooms_find"))
            /\ events' = events
  /\ UNCHANGED <<env, users, rooms, messages, clock, joined, sockData, up>>

\* socket.emit('rooms_list', ...)
GetRoomsFind(t) ==
  /\ up /\ tasks[t].pc = "rooms_find"
  /\ \E l \in RoomLists(tasks[t].userId) :
       events' = Append(events, [Event("rooms_list", ToSocket(tasks[t].conn), t)
                                   EXCEPT !.list = [i \in DOMAIN l |-> l[i].id]])
  /\ SetTask(t, Finish(tasks[t], "ok"))
  /\ UNCHANGED <<env, users, rooms, messages, clock, joined, sockData, up>>

\* socket.on('get_messages'), up to the await of getChatRoomMessages
GetMessages(c, p) ==
  /\ up /\ Len(tasks) < MaxReq
  /\ IF p.bad
       THEN Rejected("get_messages", c, p, "Failed to get messages")
       ELSE /\ tasks' = Append(tasks, NewTask("get_messages", c, p, "messages_find"))
            /\ events' = events
  /\ UNCHANGED <<env, users, rooms, messages, clock, joined, sockData, up>>

\* socket.emit('messages_list', ...)
GetMessagesFind(t) ==
  /\ up /\ tasks[t].pc = "messages_find"
  /\ \E h \in Histories(tasks[t].roomId) :
       events' = Append(events, [Event("messages_list", ToSocket(tasks[t].conn), t)
                                   EXCEPT !.roomId = tasks[t].roomId, !.list = h])
  /\ SetTask(t, Finish(tasks[t], "ok"))
  /\ UNCHANGED <<env, users, rooms, messages, clock, joined, sockData, up>>

Init ==
  /\ env \in {NoneEnv, AllEnv}
  /\ users = {Registered, AIUser}
  /\ rooms = {[id |-> RoomIdOf[1], userId |-> Registered.id, isActive |-> TRUE, updatedAt |-> 0]}
  /\ messages = <<>>
  /\ clock = 1
  /\ joined = [c \in Conns |-> {}]
  /\ sockData = [c \in Conns |-> NewSocket]
  /\ events = <<>>
  /\ tasks = <<>>
  /\ up = TRUE

\* a handler invocation that goes on after the process has been replaced
Resumed(rec) == rec

\* a handler invocation in flight when the process ends: its continuation
\* is in the memory of that process, and nothing in the store records it
Lost(rec) == Finish(rec, "crashed")

\* the process ends (a signal, the host, an exception nothing catches):
\* every connection drops
Crash ==
  /\ up
  /\ up' = FALSE
  /\ joined' = [c \in Conns |-> {}]
  /\ UNCHANGED <<env, users, rooms, messages, clock, sockData, events, tasks>>

\* the process is started again on the same store: start-up finds the
\* 'ai-assistant' row, reads no pending work, and the clients reconnect
Restart ==
  /\ ~up
  /\ up' = TRUE
  /\ tasks' = [t \in DOMAIN tasks |->
                 IF tasks[t].pc # "done" THEN Lost(tasks[t]) ELSE tasks[t]]
  /\ sockData' = [c \in Conns |-> NewSocket]
  /\ UNCHANGED <<env, users, rooms, messages, clock, joined, events>>

Next ==
  \/ \E c \in Conns : Open(c) /\ \E p \in Payloads(ClientRooms, {UserIdOf[c]}, {<<>>}) : JoinRoom(c, p)
  \/ \E c \in Conns : Open(c) /\ \E p \in Payloads(ClientRooms, {<<>>}, {<<>>}) : LeaveRoom(c, p)
  \/ \E c \in Conns : Open(c) /\ \E p \in Payloads(ClientRooms, {UserIdOf[c]}, UserMessages) : SendMessage(c, p)
  \/ \E c \in Conns : Open(c) /\ \E p \in Payloads({NoRoom}, {UserIdOf[c]}, {<<>>}) : CreateRoom(c, p)
  \/ \E c \in Conns : Open(c) /\ \E p \in Payloads({NoRoom}, {UserIdOf[c]}, {<<>>}) : GetRooms(c, p)
  \/ \E c \in Conns : Open(c) /\ \E p \in Payloads(ClientRooms, {<<>>}, {<<>>}) : GetMessages(c, p)
  \/ \E c \in Conns : Disconnect(c)
  \/ Crash
  \/ Restart
  \/ \E t \in TaskIds : UsFindName(t)
  \/ \E t \in TaskIds : UsSave(t)
  \/ \E t \in TaskIds : CsFindId(t)
  \/ \E t \in TaskIds : CsFindName(t)
  \/ \E t \in TaskIds : SendSave(t)
  \/ \E t \in TaskIds : SendHistory(t)
  \/ \E t \in TaskIds : SendGenerate(t)
  \/ \E t \in TaskIds : EnsFind(t)
  \/ \E t \in TaskIds : SendSaveAI(t)
  \/ \E t \in TaskIds : SendTimer(t)
  \/ \E t \in TaskIds : CreateRoomSave(t)
  \/ \E t \in TaskIds : GetRoomsFind(t)
  \/ \E t \in TaskIds : GetMessagesFind(t)

Spec == Init /\ [][Next]_vars

(***************************************************************************)
(* Properties of the session coordinator.                                  *)
(***************************************************************************)
EventsOf(t, ev) == { i \in DOMAIN events : events[i].task = t /\ events[i].ev = ev }

Before(h, a, b) == \E i, j \in DOMAIN h : i < j /\ h[i] = a /\ h[j] = b

\* C1: the ai_message of a send comes after the new_message of the same
\* send, which carries the user's message; the ai_message carries the saved
\* AI message, and its content is not empty.
C1_NewMessageThenAIMessage ==
  \A i \in DOMAIN events :
    events[i].ev = "ai_message" =>
      /\ \E j \in 1..(i - 1) :
           /\ events[j].ev = "new_message" /\ events[j].task = events[i].task
           /\ events[j].type = "user"
      /\ events[i].type = "ai"
      /\ messages[events[i].msg].content = events[i].content
      /\ events[i].content # <<>>

\* C6: every exception in a handler is caught and reported, as an error
\* event, to the connection the event came from and to no other; no
\* exception leaves a handler and the process stays up.
C6_HandlerExceptionsCaught ==
  /\ up
  /\ \A t \in TaskIds :
       /\ tasks[t].result # "threw"
       /\ tasks[t].result = "error" => EventsOf(t, "error") # {}
  /\ \A i \in DOMAIN events :
       events[i].ev = "error" => events[i].to = {tasks[events[i].task].conn}

C8_HistoryInInsertionOrder ==
  \A r \in ClientRooms : \A h \in Histories(r) :
    /\ Range(h) = { i \in DOMAIN messages : messages[i].chatRoomId = r }
    /\ OrderByCreatedAt(h)
    /\ \A i, j \in DOMAIN h :
         (i < j /\ messages[h[i]].createdAt = messages[h[j]].createdAt) => h[i] < h[j]

\* C9, as stated: a join records the membership, resolves the identity,
\* emits room_joined to the joining connection and then sends that
\* connection the history of the room, unasked.
C9_JoinPushesHistory ==
  \A t \in TaskIds :
    (tasks[t].kind = "join" /\ tasks[t].result = "ok") =>
      /\ tasks[t].steps = <<"socket.join", "createUser", "room_joined">>
      /\ \E i \in EventsOf(t, "room_joined"), j \in EventsOf(t, "messages_list") :
           /\ i < j
           /\ events[i].to = {tasks[t].conn}
           /\ events[j].to = {tasks[t].conn} /\ events[j].roomId = tasks[t].roomId

\* C9, amended: a join records the membership, resolves the identity and
\* emits one room_joined, to the joining connection only, and nothing more;
\* a messages_list is only ever the answer to a get_messages, sent to the
\* connection that asked.
C9_JoinAcknowledgesOnly ==
  /\ \A t \in TaskIds :
       (tasks[t].kind = "join" /\ tasks[t].result = "ok") =>
         /\ tasks[t].steps = <<"socket.join", "createUser", "room_joined">>
         /\ Cardinality(EventsOf(t, "room_joined")) = 1
         /\ { i \in DOMAIN events : events[i].task = t } = EventsOf(t, "room_joined")
  /\ \A i \in DOMAIN events :
       LET e == events[i]
       IN  /\ e.ev = "room_joined" =>
                /\ tasks[e.task].kind = "join" /\ e.roomId = tasks[e.task].roomId
                /\ e.to = {tasks[e.task].conn}
           /\ e.ev = "messages_list" =>
                /\ tasks[e.task].kind = "get_messages" /\ e.roomId = tasks[e.task].roomId
                /\ e.to = {tasks[e.task].conn}

C9_Witness ==
  \E t, g \in TaskIds :
    /\ tasks[t].kind = "join" /\ tasks[t].result = "ok"
    /\ tasks[g].kind = "get_messages" /\ tasks[g].conn = tasks[t].conn
    /\ tasks[g].roomId = tasks[t].roomId
    /\ \E i \in EventsOf(t, "room_joined"), j \in EventsOf(g, "messages_list") : i < j

\* events that go to a room; every other event answers a request
RoomEvents == {"new_message", "ai_message"}

\* C15: every step that emits an event sends a new_message or ai_message of
\* room R to exactly the connections that are in R at that step, and sends
\* room_joined, room_left, room_created, rooms_list, messages_list and error
\* to the connection of the handler that emits it and to no other.
C15_DeliveryScope ==
  [][Len(events') > Len(events) =>
       /\ Len(events') = Len(events) + 1
       /\ LET e == events'[Len(events')]
          IN  IF e.ev \in RoomEvents
                THEN e.to = {c \in Conns : e.roomId \in joined'[c]}
                ELSE /\ e.ev \in {"room_joined", "room_left", "room_created",
                                  "rooms_list", "messages_list", "error"}
                     /\ e.to = {tasks'[e.task].conn}]_vars

\* a new_message went to the one connection in its room and not to the
\* other connection, and a request of the other connection was answered to it
C15_Witness ==
  /\ \E i \in DOMAIN events :
       /\ events[i].ev = "new_message"
       /\ events[i].to = {"c1"}
       /\ joined["c2"] = {}
  /\ \E t \in TaskIds : tasks[t].kind = "join" /\ tasks[t].conn = "c1" /\ tasks[t].result = "ok"

\* C16: a connection that has closed is in no room, at the step that closes
\* it and at every later step, and the step that closes it leaves the
\* message log as it was.
C16_DisconnectRemovesMemberships ==
  [][\A c \in Conns :
       ~sockData'[c].open =>
         /\ joined'[c] = {}
         /\ sockData[c].open => messages' = messages]_vars

\* a connection that had joined a room has closed while the server runs and
\* the log holds a message
C16_Witness ==
  \E c \in Conns :
    /\ up /\ ~Open(c)
    /\ joined[c] = {}
    /\ \E t \in TaskIds : tasks[t].kind = "join" /\ tasks[t].conn = c /\ ~tasks[t].bad
    /\ Len(messages) > 0

\* C19: a restart keeps the message log and leaves every handler invocation
\* that was in flight at the crash finished as it stood, so a send_message
\* that had saved its human message and not yet its AI reply never gets one;
\* a finished invocation never changes; and in every step a human message
\* once saved stays, a reply once saved stays the reply of its invocation, and
\* an AI message that is added is the first reply of exactly one invocation.
C19_NoReplyAfterCrash ==
  [][/\ (~up /\ up') =>
          /\ messages' = messages
          /\ \A t \in TaskIds :
               tasks[t].pc # "done" =>
                 /\ tasks'[t].pc = "done"
                 /\ tasks'[t].msg = tasks[t].msg
                 /\ tasks'[t].aiMsg = tasks[t].aiMsg
     /\ \A t \in TaskIds :
          /\ tasks[t].pc = "done" => tasks'[t] = tasks[t]
          /\ tasks[t].msg # 0 =>
               /\ tasks'[t].msg = tasks[t].msg
               /\ messages'[tasks[t].msg] = messages[tasks[t].msg]
          /\ tasks[t].aiMsg # 0 => tasks'[t].aiMsg = tasks[t].aiMsg
     /\ Len(messages') <= Len(messages) + 1
     /\ (Len(messages') > Len(messages) /\ messages'[Len(messages')].type = "ai") =>
          /\ Cardinality({t \in TaskIds : tasks'[t].aiMsg = Len(messages')}) = 1
          /\ \A t \in TaskIds : tasks'[t].aiMsg = Len(messages') =>
               tasks[t].aiMsg = 0 /\ tasks[t].kind = "send" /\ tasks[t].msg # 0]_vars

\* the process has been restarted after a crash that met a send_message
\* between its two saves: the human message is in the log, without a reply
C19_Witness ==
  /\ up
  /\ \E t \in TaskIds :
       /\ tasks[t].kind = "send" /\ tasks[t].result = "crashed"
       /\ tasks[t].msg # 0 /\ tasks[t].aiMsg = 0
       /\ messages[tasks[t].msg].type = "user"
       /\ \A i \in DOMAIN messages : messages[i].type # "ai"

\* C22: every message of the log has one existing user as its author and
\* one existing room, and the author of the human message of a send_message
\* is the user the handler resolved or created for the sender.
C22_MessageAuthorIsResolvedUser ==
  /\ \A i \in DOMAIN messages :
       /\ Cardinality(FindById(users, messages[i].userId)) = 1
       /\ Cardinality({r \in rooms : r.id = messages[i].chatRoomId}) = 1
  /\ \A t \in TaskIds :
       (tasks[t].kind = "send" /\ tasks[t].msg # 0 /\ tasks[t].user # NoUser) =>
         messages[tasks[t].msg].userId = tasks[t].user.id

\* C23: every new_message and ai_message in the event stream carries the id
\* of a row of the message log, with the content and the type of that row,
\* the row its handler saved; a send_message whose save of the human message
\* (of the reply) did not succeed has emitted no new_message (no ai_message).
C23_PersistBeforeBroadcast ==
  /\ \A i \in DOMAIN events :
       events[i].ev \in RoomEvents =>
         /\ events[i].msg \in DOMAIN messages
         /\ messages[events[i].msg].content = events[i].content
         /\ messages[events[i].msg].type = events[i].type
         /\ messages[events[i].msg].chatRoomId = events[i].roomId
         /\ events[i].msg = IF events[i].ev = "new_message"
                              THEN tasks[events[i].task].msg
                              ELSE tasks[events[i].task].aiMsg
  /\ \A t \in TaskIds :
       /\ tasks[t].msg = 0 => EventsOf(t, "new_message") = {}
       /\ tasks[t].aiMsg = 0 => EventsOf(t, "ai_message") = {}

\* a send_message has broadcast its human message and its reply, and another
\* one, whose save was refused, has reported an error
C23_Witness ==
  \E t, f \in TaskIds :
    /\ EventsOf(t, "new_message") # {} /\ EventsOf(t, "ai_message") # {}
    /\ tasks[f].kind = "send" /\ ~tasks[f].bad /\ tasks[f].msg = 0
    /\ tasks[f].result = "error"

\* C24: a send_message that has emitted the error 'Failed to send message'
\* has saved no message, neither the human message nor a reply, and has
\* broadcast no new_message and no ai_message.
C24_FailedSendLeavesNoTrace ==
  \A t \in TaskIds :
    (tasks[t].kind = "send" /\ EventsOf(t, "error") # {}) =>
      /\ tasks[t].msg = 0 /\ tasks[t].aiMsg = 0
      /\ EventsOf(t, "new_message") = {}
      /\ EventsOf(t, "ai_message") = {}

(***************************************************************************)
(* The user accounts: UserService called from /api/users, next to          *)
(* ChatService.createUser and ensureAIAssistantUser.                       *)
(***************************************************************************)
\* calls the accounts specification admits
MaxAccountCalls == 3

AccountNames  == { <<"a", "b">>, <<"C", "d">> }
AccountEmails == { NoEmail, <<"X", "@", "y", ".", "z">> }
AccountIds    == { Uuid(1), Uuid(2) }

\* the calls that have returned
Done == { t \in TaskIds : tasks[t].pc = "done" }

\* userRepo.save(entity) of a loaded row: the row of that id becomes the
\* entity; a username another row has is refused
SaveLoaded(us, u) == { IF x.id = u.id THEN u ELSE x : x \in us }
RenameRefused(us, u) == \E x \in us : x.id # u.id /\ x.username = u.username

\* userService.createUser({ id, username, email })
UsCreateCall ==
  /\ Len(tasks) < MaxAccountCalls
  /\ \E n \in AccountNames, e \in AccountEmails :
       tasks' = Append(tasks, UsCall([Task("us_create", NoConn, "start") EXCEPT !.after = Done],
                                     n, e, "rest"))
  /\ UNCHANGED <<env, users, rooms, messages, clock, joined, sockData, events, up>>

\* chatService.createUser(username, email) of POST /api/chat/users
AccChatCreateCall ==
  /\ Len(tasks) < MaxAccountCalls
  /\ \E n \in AccountNames, e \in AccountEmails :
       tasks' = Append(tasks, UsCall([Task("chat_user", NoConn, "start") EXCEPT !.after = Done],
                                     n, e, "chat"))
  /\ UNCHANGED <<env, users, rooms, messages, clock, joined, sockData, events, up>>

\* chatService.ensureAIAssistantUser() of GET /api/ai-assistant-status
AccEnsureCall ==
  /\ Len(tasks) < MaxAccountCalls
  /\ tasks' = Append(tasks, [Task("ensure", NoConn, "ens_find") EXCEPT !.after = Done])
  /\ UNCHANGED <<env, users, rooms, messages, clock, joined, sockData, events, up>>

\* userService.updateUser(userId, { username?, email? }); an absent field is <<>>
UpdCall ==
  /\ Len(tasks) < MaxAccountCalls
  /\ \E id \in AccountIds, n \in AccountNames \cup {<<>>}, e \in AccountEmails :
       /\ n # <<>> \/ e # NoEmail
       /\ tasks' = Append(tasks, [Task("us_update", NoConn, "upd_find_id") EXCEPT
                                    !.userId = id, !.rawName = n, !.email = e, !.after = Done])
  /\ UNCHANGED <<env, users, rooms, messages, clock, joined, sockData, events, up>>

\* where updateUser goes after the username, with entity u in hand
UpdAfterName(rec, u) ==
  [rec EXCEPT !.user = u,
              !.pc = IF rec.email # NoEmail /\ rec.email # u.email
                       THEN "upd_find_email" ELSE "upd_save"]

\* findOne({ where: { id: userId } }), sanitize, validate
UpdFindId(t) ==
  /\ tasks[t].pc = "upd_find_id"
  /\ LET rec   == tasks[t]
         found == FindById(users, rec.userId)
         u     == One(found)
         d     == sanitizeUserData([username |-> rec.rawName, email |-> rec.email])
         errs  == validateUserData([username |-> IF d.username # <<>> THEN d.username ELSE u.username,
                                    email    |-> IF d.email # <<>> THEN d.email ELSE u.email])
         r     == [rec EXCEPT !.name = d.username, !.email = d.email]
     IN  IF found = {}
           THEN SetTask(t, Finish([rec EXCEPT !.res = Failure(<< Err("userId", "User not found") >>)], "ok"))
           ELSE IF errs # <<>>
                  THEN SetTask(t, Finish([rec EXCEPT !.res = Failure(errs)], "ok"))
                  ELSE IF d.username # <<>> /\ d.username # u.username
                         THEN SetTask(t, [r EXCEPT !.user = u, !.pc = "upd_find_name"])
                         ELSE SetTask(t, UpdAfterName(r, u))
  /\ UNCHANGED <<env, users, rooms, messages, clock, joined, sockData, events, up>>

\* findOne({ where: { username } }) for a conflict
UpdFindName(t) ==
  /\ tasks[t].pc = "upd_find_name"
  /\ LET rec == tasks[t]
     IN  IF FindByUsername(users, rec.name) # {}
           THEN SetTask(t, Finish([rec EXCEPT !.res = Failure(<< Err("username", "Username already exists") >>)], "ok"))
           ELSE SetTask(t, UpdAfterName(rec, [rec.user EXCEPT !.username = rec.name]))
  /\ UNCHANGED <<env, users, rooms, messages, clock, joined, sockData, events, up>>

\* findOne({ where: { email } }) for a conflict
UpdFindEmail(t) ==
  /\ tasks[t].pc = "upd_find_email"
  /\ LET rec == tasks[t]
     IN  IF FindByEmail(users, rec.email) # {}
           THEN SetTask(t, Finish([rec EXCEPT !.res = Failure(<< Err("email", "Email already exists") >>)], "ok"))
           ELSE SetTask(t, [rec EXCEPT !.user = [rec.user EXCEPT !.email = rec.email],
                                       !.pc = "upd_save"])
  /\ UNCHANGED <<env, users, rooms, messages, clock, joined, sockData, events, up>>

\* userRepo.save(existingUser); a refused update is caught
UpdSave(t) ==
  /\ tasks[t].pc = "upd_save"
  /\ LET rec == tasks[t]
     IN  IF RenameRefused(users, rec.user)
           THEN /\ SetTask(t, Finish([rec EXCEPT !.res = Failure(<< Err("general",
                                "Internal server error occurred while updating user") >>)], "ok"))
                /\ users' = users
           ELSE /\ SetTask(t, Finish([rec EXCEPT !.res = Success(rec.user.id)], "ok"))
                /\ users' = SaveLoaded(users, rec.user)
  /\ UNCHANGED <<env, rooms, messages, clock, joined, sockData, events, up>>

\* userService.deactivateUser(userId) / reactivateUser(userId)
ActiveCall ==
  /\ Len(tasks) < MaxAccountCalls
  /\ \E id \in AccountIds, kind \in {"us_deactivate", "us_reactivate"} :
       tasks' = Append(tasks, [Task(kind, NoConn, "act_find") EXCEPT
                                 !.userId = id, !.after = Done])
  /\ UNCHANGED <<env, users, rooms, messages, clock, joined, sockData, events, up>>

\* findOne({ where: { id: userId } }); user.isActive = ...
ActFind(t) ==
  /\ tasks[t].pc = "act_find"
  /\ LET rec   == tasks[t]
         found == FindById(users, rec.userId)
     IN  IF found = {}
           THEN SetTask(t, Finish([rec EXCEPT !.res = Failure(<< Err("userId", "User not found") >>)], "ok"))
           ELSE SetTask(t, [rec EXCEPT !.pc = "act_save",
                  !.user = [One(found) EXCEPT !.isActive = (rec.kind = "us_reactivate")]])
  /\ UNCHANGED <<env, users, rooms, messages, clock, joined, sockData, events, up>>

\* userRepo.save(user)
ActSave(t) ==
  /\ tasks[t].pc = "act_save"
  /\ LET rec == tasks[t]
     IN  IF RenameRefused(users, rec.user)
           THEN /\ SetTask(t, Finish([rec EXCEPT !.res = Failure(<< Err("general",
                                "Internal server error occurred") >>)], "ok"))
                /\ users' = users
           ELSE /\ SetTask(t, Finish([rec EXCEPT !.res = Success(rec.user.id)], "ok"))
                /\ users' = SaveLoaded(users, rec.user)
  /\ UNCHANGED <<env, rooms, messages, clock, joined, sockData, events, up>>

InitAccounts ==
  /\ env = [GROQ_API_KEY |-> FALSE, TMDB_API_KEY |-> FALSE,
            TMDB_ACESS_TOKEN |-> FALSE, OPENAI_API_KEY |-> FALSE]
  /\ InitStore
  /\ InitSockets
  /\ tasks = <<>>

NextAccounts ==
  \/ UsCreateCall
  \/ AccChatCreateCall
  \/ AccEnsureCall
  \/ UpdCall
  \/ ActiveCall
  \/ \E t \in TaskIds : UsFindName(t)
  \/ \E t \in TaskIds : UsFindEmail(t)
  \/ \E t \in TaskIds : UsSave(t)
  \/ \E t \in TaskIds : CsFindId(t)
  \/ \E t \in TaskIds : CsFindName(t)
  \/ \E t \in TaskIds : EnsFind(t)
  \/ \E t \in TaskIds : EnsFindId(t)
  \/ \E t \in TaskIds : EnsFallbackSave(t)
  \/ \E t \in TaskIds : EnsMigrate(t)
  \/ \E t \in TaskIds : UpdFindId(t)
  \/ \E t \in TaskIds : UpdFindName(t)
  \/ \E t \in TaskIds : UpdFindEmail(t)
  \/ \E t \in TaskIds : UpdSave(t)
  \/ \E t \in TaskIds : ActFind(t)
  \/ \E t \in TaskIds : ActSave(t)

SpecAccounts == InitAccounts /\ [][NextAccounts]_vars

\* C11: no two rows share a username, no two rows share an email, and every
\* stored username and email is its own trimmed, lower-case form.
C11_UniqueNormalizedAccounts ==
  \A u, v \in users :
    /\ u.username = toLowerCase(trim(u.username))
    /\ u.email = toLowerCase(trim(u.email))
    /\ (u # v) => /\ u.username # v.username
                  /\ u.email = NoEmail \/ u.email # v.email

Creates(t, n) ==
  /\ tasks[t].kind \in {"us_create", "chat_user"}
  /\ Normalized(tasks[t].rawName) = n

\* C12: a UserService.createUser with a valid name nobody else asks for, and
\* an email nobody else asks for, succeeds: the row has the id returned and
\* is active until someone deactivates it.  A createUser called after a
\* successful one of the same name fails with the one error 'Username
\* already exists' and adds no row, whether or not the row was deactivated
\* in between.  (No updateUser among the calls, so names stay.)
C12_CreateThenDuplicateRefused ==
  (\A t \in TaskIds : tasks[t].kind # "us_update") =>
    \A t2 \in TaskIds :
      (tasks[t2].kind = "us_create" /\ tasks[t2].pc = "done" /\ ValidName(tasks[t2].rawName)) =>
        LET n == Normalized(tasks[t2].rawName)
        IN  /\ ( /\ \A t \in TaskIds \ {t2} : ~Creates(t, n)
                 /\ \A t \in TaskIds \ {t2} : tasks[t2].email = NoEmail \/ tasks[t].email # tasks[t2].email )
               => /\ tasks[t2].res.success
                  /\ \E u \in FindById(users, tasks[t2].res.id) :
                       /\ u.username = n
                       /\ u.isActive \/ \E d \in TaskIds : /\ tasks[d].kind = "us_deactivate"
                                                           /\ tasks[d].userId = u.id
            /\ \A t1 \in tasks[t2].after :
                 (tasks[t1].kind = "us_create" /\ tasks[t1].res.success /\ Creates(t1, n))
                   => /\ tasks[t2].res = Failure(<< Err("username", "Username already exists") >>)
                      /\ FindByUsername(users, n) = FindById(users, tasks[t1].res.id)
                      /\ Cardinality(FindByUsername(users, n)) = 1

C12_Witness ==
  \E t1, d, t2 \in TaskIds :
    /\ tasks[t1].kind = "us_create" /\ tasks[t1].res.success
    /\ tasks[d].kind = "us_deactivate" /\ tasks[d].res.success
    /\ tasks[d].userId = tasks[t1].res.id
    /\ tasks[t2].kind = "us_create" /\ tasks[t2].pc = "done"
    /\ {t1, d} \subseteq tasks[t2].after
    /\ Normalized(tasks[t2].rawName) = Normalized(tasks[t1].rawName)
    /\ tasks[t2].res = Failure(<< Err("username", "Username already exists") >>)
    /\ \E u \in users : u.id = tasks[t1].res.id /\ ~u.isActive

(***************************************************************************)
(* A cold start of the process (index.ts): the data source is up, the      *)
(* start-up call of ensureAIAssistantUser runs, the server listens; then   *)
(* the status endpoint calls ensureAIAssistantUser again and handlers save *)
(* messages.  The store is the one the process finds: with or without the  *)
(* 'ai-assistant' row, and with the rows migrateAIMessages is written for  *)
(* (messages whose userId is the old string 'ai-assistant').               *)
(***************************************************************************)
MaxStartCalls == 2

\* a user whose e-mail is the one ensureAIAssistantUser asks for
Squatter == [Registered EXCEPT !.email = AIEmail]

Room1 == [id |-> RoomIdOf[1], userId |-> Registered.id, isActive |-> TRUE, updatedAt |-> 0]

LegacyMessages ==
  << [id |-> 1, content |-> <<"h", "i">>, type |-> "user", createdAt |-> 0,
      userId |-> Registered.id, chatRoomId |-> Room1.id],
     [id |-> 2, content |-> <<"o", "k">>, type |-> "ai", createdAt |-> 0,
      userId |-> AIUsername, chatRoomId |-> Room1.id],
     [id |-> 3, content |-> <<"i", "n">>, type |-> "system", createdAt |-> 0,
      userId |-> AIUsername, chatRoomId |-> Room1.id] >>

InitStart ==
  /\ env = NoneEnv
  /\ users \in {{Registered}, {Squatter}, {Registered, AIUser}}
  /\ rooms = {Room1}
  /\ messages = LegacyMessages
  /\ clock = 1
  /\ InitSockets
  /\ tasks = << Task("startup", NoConn, "ens_find") >>

\* httpServer.listen has been reached
Listening == tasks[1].pc = "done"

\* GET /api/ai-assistant-status: await chatService.ensureAIAssistantUser()
StatusCall ==
  /\ Listening /\ Len(tasks) < 1 + MaxStartCalls
  /\ tasks' = Append(tasks, Task("ensure", NoConn, "ens_find"))
  /\ UNCHANGED <<env, users, rooms, messages, clock, joined, sockData, events, up>>

\* a handler's call of chatService.saveMessage(content, userId, roomId, type)
SaveCall ==
  /\ Listening /\ Len(tasks) < 1 + MaxStartCalls
  /\ \E a \in {u.id : u \in users} \cup {AIUsername}, ty \in {"user", "ai"} :
       tasks' = Append(tasks, [Task("save", NoConn, "save_msg") EXCEPT
                                 !.userId = a, !.roomId = Room1.id,
                                 !.content = <<"h", "i">>, !.type = ty])
  /\ UNCHANGED <<env, users, rooms, messages, clock, joined, sockData, events, up>>

\* saveMessage: messageRepo.save of a new row; a refused insert throws
SaveMsg(t) ==
  /\ up /\ tasks[t].pc = "save_msg"
  /\ LET rec == tasks[t]
     IN  IF ~FkOk(rec.userId, rec.roomId)
           THEN /\ SetTask(t, Finish(rec, "threw"))
                /\ UNCHANGED <<messages, clock>>
           ELSE \E stamp \in {clock, clock + 1} :
                  /\ messages' = SaveMessage(messages, rec.userId, rec.roomId,
                                             rec.content, rec.type, stamp)
                  /\ clock' = stamp
                  /\ SetTask(t, Finish([rec EXCEPT !.msg = Len(messages) + 1], "ok"))
  /\ UNCHANGED <<env, users, rooms, joined, sockData, events, up>>

NextStart ==
  \/ StatusCall
  \/ SaveCall
  \/ \E t \in TaskIds : EnsFind(t)
  \/ \E t \in TaskIds : UsFindName(t)
  \/ \E t \in TaskIds : UsFindEmail(t)
  \/ \E t \in TaskIds : UsSave(t)
  \/ \E t \in TaskIds : EnsFindId(t)
  \/ \E t \in TaskIds : EnsFallbackSave(t)
  \/ \E t \in TaskIds : EnsMigrate(t)
  \/ \E t \in TaskIds : EnsMigrateSave(t)
  \/ \E t \in TaskIds : SaveMsg(t)

SpecStart == InitStart /\ [][NextStart]_vars

\* the migration of task t ran to its end without an error
Migrated(t) == \E i \in DOMAIN tasks[t].steps : tasks[t].steps[i] = "migrated"

\* the migration of task t met an error
MigrationFailed(t) == \E i \in DOMAIN tasks[t].steps : tasks[t].steps[i] = "migration failed"

\* C13: once ensureAIAssistantUser has created the AI user and its migration
\* has succeeded, no AI-typed message has the author 'ai-assistant': each such
\* message of the store now has the identifier of the AI user the call
\* resolved, and every message of another type or author is as it was.
C13_MigrationRewritesPlaceholderAuthors ==
  \A t \in TaskIds :
    Migrated(t) =>
      /\ tasks[t].aiUser \in AIRows
      /\ \A i \in DOMAIN messages :
           ~(messages[i].type = "ai" /\ messages[i].userId = AIUsername)
      /\ \A i \in DOMAIN LegacyMessages :
           IF LegacyMessages[i].type = "ai" /\ LegacyMessages[i].userId = AIUsername
             THEN messages[i] = [LegacyMessages[i] EXCEPT !.userId = tasks[t].aiUser.id]
             ELSE messages[i] = LegacyMessages[i]

\* a migration has succeeded and rewritten the legacy AI message
C13_Witness ==
  \E t \in TaskIds :
    /\ Migrated(t)
    /\ tasks[t].found # {}
    /\ messages[2].userId = tasks[t].aiUser.id
    /\ messages[3].userId = AIUsername

\* C14: when the read or the write inside migrateAIMessages fails, the call
\* of ensureAIAssistantUser that ran it has returned at that very step, with
\* the one 'ai-assistant' row it created, without an exception and without
\* going on to the fallback creation; the start-up that made the call
\* reaches httpServer.listen.
C14_MigrationFailureSwallowed ==
  \A t \in TaskIds :
    MigrationFailed(t) =>
      /\ tasks[t].pc = "done"
      /\ tasks[t].steps[Len(tasks[t].steps)] \in {"migration failed", "ensure returned"}
      /\ tasks[t].aiUser \in AIRows
      /\ Cardinality(AIRows) = 1
      /\ tasks[t].kind = "ensure" => tasks[t].result = "ok"
      /\ tasks[t].kind = "startup" => tasks[t].result = "listening"

\* the write of the rows found has failed in the start-up call, the legacy
\* message keeps its placeholder author and the server listens
C14_Witness ==
  /\ MigrationFailed(1)
  /\ tasks[1].found # {}
  /\ messages[2].userId = AIUsername
  /\ tasks[1].result = "listening"
  /\ tasks[1].aiUser \in AIRows

\* the calls of ensureAIAssistantUser that ran migrateAIMessages
Migrating == {t \in TaskIds : tasks[t].migrations > 0}

\* C18: in every start of the process, whether or not the 'ai-assistant' row
\* is already in the store, migrateAIMessages has run exactly once by the time
\* the server listens, and no later call of ensureAIAssistantUser runs it again.
C18_MigrationOncePerStart ==
  /\ \A t \in TaskIds : tasks[t].migrations <= 1
  /\ Cardinality(Migrating) <= 1
  /\ Listening => Cardinality(Migrating) = 1

\* C20: no step removes a message or changes one in place, with one
\* exception: an AI-typed message whose author is the string 'ai-assistant'
\* may get the identifier of the 'ai-assistant' user as its author, all its
\* other fields unchanged.
C20_MessagesAppendOnly ==
  [][/\ Len(messages') >= Len(messages)
     /\ \A i \in DOMAIN messages :
          \/ messages'[i] = messages[i]
          \/ /\ messages[i].type = "ai"
             /\ messages[i].userId = AIUsername
             /\ \E u \in AIRows : messages'[i] = [messages[i] EXCEPT !.userId = u.id]]_vars

\* the migration has rewritten the legacy AI message and a message has been
\* saved after it; the other legacy rows are the rows the start found
C20_Witness ==
  /\ Len(messages) > Len(LegacyMessages)
  /\ messages[2] = [LegacyMessages[2] EXCEPT !.userId = AIUser.id]
  /\ messages[1] = LegacyMessages[1]
  /\ messages[3] = LegacyMessages[3]

(***************************************************************************)
(* What each provider is given: the history a send_message handler read    *)
(* from the room, cut and tagged by the provider's service.                *)
(***************************************************************************)
MaxHistory == 11

PrimaryWindow == 6
SecondaryWindow == 10

\* Array.prototype.slice(0, n): the first n elements
sliceFirst(h, n) == SubSeq(h, 1, IF Len(h) > n THEN n ELSE Len(h))

\* Array.prototype.slice(-n): the last n elements, all of them when there
\* are fewer
slice(h, n) == SubSeq(h, IF Len(h) > n THEN Len(h) - n + 1 ELSE 1, Len(h))

\* msg.type === MessageType.USER ? 'User' : 'Assistant'
SpeakerTag(type) == IF type = "user" THEN "User" ELSE "Assistant"

\* msg.type === MessageType.USER ? 'user' : 'assistant'
Role(type) == IF type = "user" THEN "user" ELSE "assistant"

\* chatHistory.slice(-6).map(msg => `${tag}: ${msg.content}`), the lines
\* that join('\n') puts into {chatHistory}
formattedHistory(chatHistory) ==
  LET h == slice(chatHistory, PrimaryWindow)
  IN  [i \in DOMAIN h |-> [tag |-> SpeakerTag(h[i].type), content |-> h[i].content]]

\* chain.invoke({ chatHistory, userMessage, movieData }): the human prompt
\* holds the history lines, then 'Current user message: {userMessage}'
PrimaryInput(userMessage, chatHistory) ==
  Append(formattedHistory(chatHistory),
         [tag |-> "Current user message", content |-> userMessage])

\* messages of chat.completions.create after the system message:
\* ...chatHistory.slice(-10).map(...), then { role: 'user', content: userMessage }
SecondaryInput(userMessage, chatHistory) ==
  LET h == slice(chatHistory, SecondaryWindow)
  IN  Append([i \in DOMAIN h |-> [tag |-> Role(h[i].type), content |-> h[i].content]],
             [tag |-> "user", content |-> userMessage])

\* the content of the i-th message of the room
ContentOf(i) == <<LowerCs[i]>>

InitHistory ==
  /\ env = AllEnv
  /\ users = {Registered, AIUser}
  /\ rooms = {Room1}
  /\ messages = <<>>
  /\ clock = 1
  /\ InitSockets
  /\ tasks = <<>>

\* a message of the room is saved: a human message, a reply, or a system
\* message
HistorySave ==
  /\ tasks = <<>> /\ Len(messages) < MaxHistory
  /\ \E ty \in {"user", "ai", "system"} :
       messages' = SaveMessage(messages,
                               IF ty = "user" THEN Registered.id ELSE AIUser.id,
                               Room1.id, ContentOf(Len(messages) + 1), ty, clock)
  /\ clock' = clock + 1
  /\ UNCHANGED <<env, users, rooms, joined, sockData, events, tasks, up>>

\* langchainAI.generateMovieRecommendation(userMessage, chatHistory) with the
\* history of the room, up to chain.invoke
PrimaryCall ==
  /\ tasks = <<>>
  /\ tasks' = <<[Task("primary", NoConn, "done") EXCEPT
                   !.content = <<"h", "i">>,
                   !.input = PrimaryInput(<<"h", "i">>, messages)]>>
  /\ UNCHANGED <<env, users, rooms, messages, clock, joined, sockData, events, up>>

\* openaiService.generateMovieRecommendation(userMessage, chatHistory) with
\* the history of the room, up to chat.completions.create
SecondaryCall ==
  /\ tasks = <<>>
  /\ tasks' = <<[Task("secondary", NoConn, "done") EXCEPT
                   !.content = <<"h", "i">>,
                   !.input = SecondaryInput(<<"h", "i">>, messages)]>>
  /\ UNCHANGED <<env, users, rooms, messages, clock, joined, sockData, events, up>>

NextHistory ==
  \/ HistorySave
  \/ PrimaryCall
  \/ SecondaryCall

SpecHistory == InitHistory /\ [][NextHistory]_vars

\* the smaller of two numbers
Min(a, b) == IF a < b THEN a ELSE b

\* C21: for a history of any length n the primary provider is given
\* min(n, 6) lines and the secondary min(n, 10), line k being the message at
\* position n - lines + k of the history (the last ones, oldest first) with
\* its content, tagged as the user's for a user-typed message and as the
\* assistant's for any other type; the new user message comes last.
C21_ProviderHistoryWindow ==
  \A t \in TaskIds :
    tasks[t].kind \in {"primary", "secondary"} =>
      LET n    == Len(messages)
          w    == IF tasks[t].kind = "primary" THEN 6 ELSE 10
          k    == Min(n, w)
          user == IF tasks[t].kind = "primary" THEN "User" ELSE "user"
          asst == IF tasks[t].kind = "primary" THEN "Assistant" ELSE "assistant"
          in   == tasks[t].input
      IN  /\ Len(in) = k + 1
          /\ \A i \in 1..k :
               /\ in[i].content = messages[n - k + i].content
               /\ in[i].tag = IF messages[n - k + i].type = "user" THEN user ELSE asst
          /\ in[k + 1].content = tasks[t].content
          /\ in[k + 1].tag \in {"Current user message", "user"}

\* a provider call on a history longer than the secondary window that holds
\* all three message types among the lines handed over
C21_Witness ==
  /\ Len(messages) = MaxHistory
  /\ \E t \in TaskIds : tasks[t].kind = "secondary" /\ Len(tasks[t].input) = SecondaryWindow + 1
  /\ {messages[i].type : i \in (MaxHistory - 5)..MaxHistory} = {"user", "ai", "system"}

(***************************************************************************)
(* One room in use: the coordinator from the state in which connection c1, *)
(* the registered user's, has joined room r1 (its join_room has created    *)
(* the row 'user_1'), and a second account exists whose client writes its  *)
(* identifier in upper case.  Handler invocations and events are recorded  *)
(* from this state on.                                                     *)
(***************************************************************************)
\* an account whose id has a letter, and the row join_room made for c1
HexUser == [id |-> <<"e">>, username |-> <<"e", "v">>, email |-> NoEmail, isActive |-> TRUE]
JoinedUser == [id |-> Uuid(3), username |-> UserPrefix \o Uuid(1), email |-> NoEmail, isActive |-> TRUE]

\* the user ids the second connection sends: its account's id in upper
\* case, and a text that is no identifier
RoomUserIds == [c \in Conns |-> IF c = "c1" THEN {Uuid(1)} ELSE {<<"E">>, <<"!">>}]

RoomPayloads(c) ==
  [bad : {FALSE}, roomId : {Room1.id}, userId : RoomUserIds[c], content : UserMessages]

InitRoom ==
  /\ env = NoneEnv
  /\ users = {Registered, AIUser, JoinedUser, HexUser}
  /\ rooms = {Room1}
  /\ messages = <<>>
  /\ clock = 1
  /\ joined = [c \in Conns |-> IF c = "c1" THEN {Room1.id} ELSE {}]
  /\ sockData = [c \in Conns |->
                   IF c = "c1"
                     THEN [NewSocket EXCEPT !.userId = Uuid(1), !.username = JoinedUser.username]
                     ELSE NewSocket]
  /\ events = <<>>
  /\ tasks = <<>>
  /\ up = TRUE

NextRoom ==
  \/ \E c \in Conns : \E p \in RoomPayloads(c) : JoinRoom(c, p)
  \/ \E c \in Conns : \E p \in RoomPayloads(c) : SendMessage(c, p)
  \/ \E c \in Conns : \E p \in RoomPayloads(c) : GetMessages(c, p)
  \/ \E t \in TaskIds : UsFindName(t)
  \/ \E t \in TaskIds : UsSave(t)
  \/ \E t \in TaskIds : CsFindId(t)
  \/ \E t \in TaskIds : CsFindName(t)
  \/ \E t \in TaskIds : SendSave(t)
  \/ \E t \in TaskIds : SendHistory(t)
  \/ \E t \in TaskIds : SendGenerate(t)
  \/ \E t \in TaskIds : EnsFind(t)
  \/ \E t \in TaskIds : SendSaveAI(t)
  \/ \E t \in TaskIds : SendTimer(t)
  \/ \E t \in TaskIds : GetMessagesFind(t)

SpecRoom == InitRoom /\ [][NextRoom]_vars

\* C25: a join_room that has emitted the error 'Failed to join room' leaves
\* its connection outside the room it asked for, and no new_message or
\* ai_message of that room emitted after the error goes to that connection.
C25_FailedJoinLeavesMembership ==
  \A t \in TaskIds :
    (tasks[t].kind = "join" /\ EventsOf(t, "error") # {}) =>
      /\ tasks[t].roomId \notin joined[tasks[t].conn]
      /\ \A i \in EventsOf(t, "error"), j \in DOMAIN events :
           (i < j /\ events[j].ev \in RoomEvents /\ events[j].roomId = tasks[t].roomId)
             => tasks[t].conn \notin events[j].to

\* ChatRoom.tsx: the message list of the client on connection c after the
\* first n events, which reach it in the order they were emitted.
\* onMessagesList: setMessages(messagesList); onNewMessage and onAIMessage:
\* setMessages(prev => [...prev, message])
RECURSIVE Displayed(_, _)
Displayed(c, n) ==
  IF n = 0
    THEN <<>>
    ELSE LET e    == events[n]
             prev == Displayed(c, n - 1)
         IN  IF c \notin e.to THEN prev
             ELSE IF e.ev = "messages_list" THEN e.list
             ELSE IF e.ev \in RoomEvents THEN Append(prev, e.msg)
             ELSE prev

\* C26: whatever the interleaving of get_messages with the steps of
\* send_message, the list a client displays holds no message id twice.
C26_DisplayedListHasNoDuplicates ==
  \A c \in Conns :
    LET d == Displayed(c, Len(events))
    IN  \A i, j \in DOMAIN d : i # j => d[i] # d[j]

\* h holds b right after a
DirectlyFollows(h, a, b) == \E i \in DOMAIN h : i + 1 \in DOMAIN h /\ h[i] = a /\ h[i + 1] = b

\* C27: of two send_message invocations for one room whose human messages
\* were saved in the order m1, m2, the second has its reply saved (and its
\* ai_message emitted) only after the first has; and every history of the
\* room holds each reply right after the human message it answers.
C27_RepliesInSendOrder ==
  /\ \A t1, t2 \in TaskIds :
       ( /\ tasks[t1].kind = "send" /\ tasks[t2].kind = "send"
         /\ tasks[t1].roomId = tasks[t2].roomId
         /\ tasks[t1].msg # 0 /\ tasks[t2].msg # 0
         /\ tasks[t1].msg < tasks[t2].msg ) =>
         /\ tasks[t2].aiMsg # 0 =>
              (tasks[t1].aiMsg # 0 /\ tasks[t1].aiMsg < tasks[t2].aiMsg)
         /\ \A j \in EventsOf(t2, "ai_message") :
              \E i \in EventsOf(t1, "ai_message") : i < j
  /\ \A t \in TaskIds :
       (tasks[t].kind = "send" /\ tasks[t].aiMsg # 0) =>
         \A h \in Histories(tasks[t].roomId) :
           DirectlyFollows(h, tasks[t].msg, tasks[t].aiMsg)

\* C28: the history a send_message hands to generateAIResponse, and so the
\* window either provider cuts from it, does not hold the message that is
\* handed over separately as the new user message.
C28_NewMessageOnceInProviderInput ==
  \A t \in TaskIds :
    (tasks[t].kind = "send" /\ tasks[t].pc = "send_generate") =>
      /\ tasks[t].msg \notin Range(slice(tasks[t].hist, PrimaryWindow))
      /\ tasks[t].msg \notin Range(slice(tasks[t].hist, SecondaryWindow))

\* messages of a room with a given type
OfType(roomId, type) ==
  {i \in DOMAIN messages : messages[i].chatRoomId = roomId /\ messages[i].type = type}

\* C29: in every room the AI-typed messages are at most as many as the
\* human-typed ones, and the reply a send_message has saved has the id of
\* the 'ai-assistant' row as its author: not the string 'ai-assistant', and
\* not the author of the human message it answers.
C29_RepliesBoundedAndAIAuthored ==
  /\ \A r \in rooms :
       Cardinality(OfType(r.id, "ai")) <= Cardinality(OfType(r.id, "user"))
  /\ \A t \in TaskIds :
       (tasks[t].kind = "send" /\ tasks[t].aiMsg # 0) =>
         /\ messages[tasks[t].aiMsg].type = "ai"
         /\ \E u \in AIRows : messages[tasks[t].aiMsg].userId = u.id
         /\ messages[tasks[t].aiMsg].userId # AIUsername
         /\ messages[tasks[t].aiMsg].userId # messages[tasks[t].msg].userId

\* two send_message invocations have each saved a reply in the same room
C29_Witness ==
  \E t1, t2 \in TaskIds :
    /\ t1 # t2
    /\ tasks[t1].aiMsg # 0 /\ tasks[t2].aiMsg # 0
    /\ tasks[t1].roomId = tasks[t2].roomId
    /\ Cardinality(OfType(tasks[t1].roomId, "ai")) = 2

\* get_messages: message.user?.username ||
\*   (message.type === MessageType.AI ? 'AI Assistant' : 'Unknown User'),
\* message.user being the row the relation on userId loads
ListUsername(m) ==
  LET author == FindById(users, messages[m].userId)
  IN  IF author # {} /\ One(author).username # <<>>
        THEN One(author).username
        ELSE IF messages[m].type = "ai"
               THEN <<"A","I"," ","A","s","s","i","s","t","a","n","t">>
               ELSE <<"U","n","k","n","o","w","n"," ","U","s","e","r">>

\* C30: the username a new_message carries for a human message is the
\* username a later messages_list reports for the same message id.
C30_LiveAndHistoryUsernamesAgree ==
  \A i, j \in DOMAIN events :
    ( /\ events[i].ev = "new_message" /\ events[j].ev = "messages_list"
      /\ i < j
      /\ events[i].msg \in Range(events[j].list) )
    => events[i].username = ListUsername(events[i].msg)

====
